---- MODULE Spec2Model ----
(***************************************************************************)
(* Asset-optimisation pipeline of src/src/js/responsive.js: the size plan  *)
(* calculator, the variant generator, the HTML srcset rewriter and the     *)
(* pass orchestration.                                                     *)
(*                                                                         *)
(* Text is modelled as a sequence of tokens (a token is a run of           *)
(* characters that the program never splits: a name, an extension with its *)
(* dot, a separator).  Concatenation, suffix tests and substring           *)
(* replacement on token sequences are the string operations of the source. *)
(***************************************************************************)
EXTENDS Integers, Sequences, FiniteSets, TLC

VARIABLES
  originalWidth,   \* input of ImageSizeCalculator.calculate
  sizes,           \* the plan it returned (<<>> before the call)
  htmlFile,        \* path of the HTML file being rewritten
  htmlContent,     \* its <img> elements
  imagePath,       \* path of the raster being processed
  imageWidth,      \* its pixel width
  generatedImages, \* the variants generate() returned for it (<<>> before)
  applied,         \* how many times updateAll has run on htmlFile
  pc,              \* BuildOptimizer.optimize: "idle", a pass, "done" or "failed" ("off": not run)
  srcExists,       \* the source directory exists
  woff2Init,       \* woff2.init(): "pending" until first awaited, then "ok" or "rejected"
  dist,            \* paths of the files in the build directory
  text,            \* content of each text file of the build directory
  queue,           \* the files the running pass found (findFiles)
  idx,             \* position in queue of the asset being processed
  step,            \* where the running pass is within that asset
  variants,        \* generatedImages of the raster being processed, so far
  passFiles,       \* processedFiles of the running pass
  processedFiles,  \* BuildOptimizer.processedFiles
  console,         \* what console.log / console.error printed
  cssFile,         \* the stylesheet the font rewrites are applied to
  cssContent,      \* its content
  fontsDone,       \* how many fonts of FontQueue processFont has converted and rewritten
  glyf,            \* fontData.glyf: the glyphs of the font being converted
  cmap,            \* fontData.cmap: code-point key -> glyph name
  filtered,        \* the glyph filter of convertToWoff2 has run
  passImages,      \* the rasters an image pass found, each with its width
  imgIdx,          \* the raster whose variants are being written
  planIdx,         \* the entry of its plan to write next
  outFiles         \* the variant files written so far

calcVars == <<originalWidth, sizes>>
htmlVars == <<htmlFile, htmlContent, imagePath, imageWidth, generatedImages, applied>>
envVars == <<srcExists>>
runVars == <<pc, woff2Init, dist, text, queue, idx, step, variants, passFiles, processedFiles, console>>
pipeVars == <<envVars, runVars>>
fontVars == <<cssFile, cssContent, fontsDone>>
glyphVars == <<glyf, cmap, filtered>>
variantVars == <<passImages, imgIdx, planIdx, outFiles>>
vars == <<calcVars, htmlVars, pipeVars, fontVars, glyphVars, variantVars>>

----------------------------------------------------------------------------
(* CONFIG *)
SIZE_INCREMENT == 128
MAX_INCREMENT_SIZE == 1024
MIN_QUARTER_INCREMENT == 128

(* Largest original width the size plan is computed for. *)
MaxWidth == 2100

----------------------------------------------------------------------------
(* Math.round(num/den) for num >= 0, den > 0: floor(num/den + 1/2). *)
MathRound(num, den) == (2 * num + den) \div (2 * den)

RECURSIVE addIncrementalLoop(_, _, _)
addIncrementalLoop(acc, size, width) ==
  IF size <= MAX_INCREMENT_SIZE /\ size <= width
  THEN addIncrementalLoop(
         Append(acc, [width |-> size, folder |-> ToString(size), type |-> "increment"]),
         size + SIZE_INCREMENT, width)
  ELSE acc

(* Mutant: the loop bound tests size < originalWidth. *)
addIncrementalSizes_exclusive(acc, width) == addIncrementalLoop(acc, SIZE_INCREMENT, width - 1)

addIncrementalSizes(acc, width) == addIncrementalLoop(acc, SIZE_INCREMENT, width)

(* Mutant: the threshold of the flat scheme, diff * 0.25 > 128, on the unrounded quarter. *)
addIntermediateSizes_gapThreshold(acc, width) ==
  IF width <= MAX_INCREMENT_SIZE THEN acc
  ELSE
    LET diff == width - MAX_INCREMENT_SIZE
        quarter == MathRound(diff, 4)
        half == MathRound(diff, 2)
        threeQuarter == MathRound(3 * diff, 4)
    IN IF diff > 4 * MIN_QUARTER_INCREMENT
       THEN acc \o
            << [width |-> MAX_INCREMENT_SIZE + quarter, folder |-> "25", type |-> "intermediate"],
               [width |-> MAX_INCREMENT_SIZE + half, folder |-> "50", type |-> "intermediate"],
               [width |-> MAX_INCREMENT_SIZE + threeQuarter, folder |-> "75", type |-> "intermediate"] >>
       ELSE Append(acc, [width |-> MAX_INCREMENT_SIZE + half, folder |-> "50", type |-> "intermediate"])

addIntermediateSizes(acc, width) ==
  IF width <= MAX_INCREMENT_SIZE THEN acc
  ELSE
    LET diff == width - MAX_INCREMENT_SIZE
        quarter == MathRound(diff, 4)
        half == MathRound(diff, 2)
        threeQuarter == MathRound(3 * diff, 4)
    IN IF quarter >= MIN_QUARTER_INCREMENT
       THEN acc \o
            << [width |-> MAX_INCREMENT_SIZE + quarter, folder |-> "25", type |-> "intermediate"],
               [width |-> MAX_INCREMENT_SIZE + half, folder |-> "50", type |-> "intermediate"],
               [width |-> MAX_INCREMENT_SIZE + threeQuarter, folder |-> "75", type |-> "intermediate"] >>
       ELSE Append(acc, [width |-> MAX_INCREMENT_SIZE + half, folder |-> "50", type |-> "intermediate"])

(* Mutant: the original width is added only when no entry has it yet (set semantics). *)
addOriginalSize_unlessPresent(acc, width) ==
  IF \E k \in 1..Len(acc) : acc[k].width = width THEN acc
  ELSE Append(acc, [width |-> width, folder |-> "original", type |-> "original"])

addOriginalSize(acc, width) ==
  Append(acc, [width |-> width, folder |-> "original", type |-> "original"])

calculate(width) ==
  addOriginalSize(addIntermediateSizes(addIncrementalSizes(<<>>, width), width), width)

----------------------------------------------------------------------------
(* Strings as token sequences; path functions of node's path module (posix). *)
BUILD_DIR == <<"dist">>
ExtTokens == {".jpg", ".jpeg", ".png", ".webp", ".avif", ".html", ".css", ".js",
              ".ttf", ".otf", ".woff2"}

IsSuffix(p, s) == Len(p) <= Len(s) /\ SubSeq(s, Len(s) - Len(p) + 1, Len(s)) = p
Front(s) == SubSeq(s, 1, Len(s) - 1)
Last(s) == s[Len(s)]

(* Case folding of the "i" flag, on the tokens that have an upper-case spelling here. *)
Lower(tok) ==
  CASE tok = "SRC" -> "src"
    [] tok = "SRCSET" -> "srcset"
    [] tok = "DATA-" -> "data-"
    [] OTHER -> tok
LowerStr(s) == [k \in 1..Len(s) |-> Lower(s[k])]

(* s.split("/") and segs.join("/") *)
RECURSIVE Split(_)
Split(s) ==
  IF s = <<>> THEN << <<>> >>
  ELSE LET rest == Split(Tail(s))
       IN IF Head(s) = "/" THEN << <<>> >> \o rest
          ELSE << <<Head(s)>> \o Head(rest) >> \o Tail(rest)

RECURSIVE Join(_)
Join(segs) ==
  IF segs = <<>> THEN <<>>
  ELSE IF Len(segs) = 1 THEN segs[1]
  ELSE segs[1] \o <<"/">> \o Join(Tail(segs))

dirname(p) ==
  LET segs == Split(p)
  IN IF Len(segs) <= 1 THEN <<".">> ELSE Join(Front(segs))

basename(p) == Last(Split(p))

extname(p) ==
  LET b == basename(p)
  IN IF Len(b) >= 2 /\ Last(b) \in ExtTokens THEN Last(b) ELSE ""

(* path.relative(from, to) for two normalised paths relative to the working directory *)
relative(from, to) ==
  LET f == Split(from)
      t == Split(to)
      m == IF Len(f) < Len(t) THEN Len(f) ELSE Len(t)
      common == CHOOSE c \in 0..m :
                  /\ SubSeq(f, 1, c) = SubSeq(t, 1, c)
                  /\ (c < m => f[c + 1] # t[c + 1])
      ups == [i \in 1..(Len(f) - common) |-> <<"..">>]
  IN Join(ups \o SubSeq(t, common + 1, Len(t)))

(* FileSystem.normalizePath: every backslash becomes a slash *)
normalizePath(filePath) ==
  [k \in 1..Len(filePath) |-> IF filePath[k] = "\\" THEN "/" ELSE filePath[k]]

(* PathUtils *)
getRelativePath(from, to) == normalizePath(relative(from, to))

getBaseNameWithoutExt(filePath) ==
  LET b == basename(filePath)
  IN IF extname(filePath) # "" THEN Front(b) ELSE b

(* s.replace(/\.[^.]+$/, r): the last dot-token and what follows it are replaced by r *)
replaceExtension(s, r) ==
  LET dots == {k \in 1..Len(s) : s[k] \in ExtTokens}
  IN IF dots = {} THEN s
     ELSE LET k == CHOOSE d \in dots : \A e \in dots : e <= d
          IN SubSeq(s, 1, k - 1) \o r

changeExtension(filePath, newExt) == replaceExtension(filePath, <<newExt>>)

----------------------------------------------------------------------------
(* ImageVariantGenerator *)
outputPath(image, sizeInfo) ==
  LET baseName == getBaseNameWithoutExt(image)
      folderPath == dirname(image) \o <<"/", sizeInfo.folder>>
      fileName == IF sizeInfo.type = "original"
                  THEN baseName \o <<".avif">>
                  ELSE baseName \o <<"-", ToString(sizeInfo.width), "w", ".avif">>
  IN folderPath \o <<"/">> \o fileName

variantOf(image, sizeInfo) ==
  [path |-> outputPath(image, sizeInfo), width |-> sizeInfo.width,
   folder |-> sizeInfo.folder, type |-> sizeInfo.type]

generate(image, width) ==
  LET plan == calculate(width)
  IN [k \in 1..Len(plan) |-> variantOf(image, plan[k])]

originalImage(generated) ==
  generated[CHOOSE k \in 1..Len(generated) :
              /\ generated[k].type = "original"
              /\ \A j \in 1..(k - 1) : generated[j].type # "original"]

----------------------------------------------------------------------------
(* HtmlSrcsetUpdater.  An HTML file is the sequence of its <img ...> elements, an  *)
(* element the sequence of its attributes name="value", in source order.           *)
Attr(n, v) == [name |-> n, val |-> v]
ORIGINAL_EXTS == <<".jpg", ".jpeg", ".png", ".webp", ".avif">>

createBaseReference(originalImagePath, baseName) ==
  LET originalRef == getRelativePath(BUILD_DIR, originalImagePath)
      segs == Split(originalRef)
      (* .replace(/\/[^\/]*\/[^\/]*$/, ''): the last two components go *)
      parent == IF Len(segs) >= 3 THEN Join(SubSeq(segs, 1, Len(segs) - 2)) ELSE originalRef
      stripped == replaceExtension(parent, <<>>)
  IN normalizePath(IF stripped = <<>> THEN baseName ELSE stripped)

RECURSIVE joinItems(_)
joinItems(items) ==
  IF items = <<>> THEN <<>>
  ELSE IF Len(items) = 1 THEN items[1]
  ELSE items[1] \o <<", ">> \o joinItems(Tail(items))

(* Mutant: the item paths are taken relative to the build directory, not to the file. *)
generateSrcsetValues_fromBuildDir(file, generated) ==
  joinItems([k \in 1..Len(generated) |->
    normalizePath(relative(BUILD_DIR, generated[k].path))
      \o <<" ", ToString(generated[k].width), "w">>])

generateSrcsetValues(file, generated) ==
  joinItems([k \in 1..Len(generated) |->
    normalizePath(relative(dirname(file), generated[k].path))
      \o <<" ", ToString(generated[k].width), "w">>])

(* The two patterns of one extension, as the text that must end the src value *)
createPatterns(baseName, baseRef, ext) == << baseName \o <<ext>>, baseRef \o <<ext>> >>

(* <img\b([^>]*?)src=["']([^"']*?)NEEDLE["']([^>]*?)>  with flags gi, on one element:  *)
(* the index of the leftmost attribute whose name ends in src and whose value ends in  *)
(* NEEDLE, 0 when there is none.                                                       *)
matchIndex(elem, needle) ==
  LET hits == {k \in 1..Len(elem) :
                 /\ Lower(Last(elem[k].name)) = "src"
                 /\ IsSuffix(LowerStr(needle), LowerStr(elem[k].val))}
  IN IF hits = {} THEN 0 ELSE CHOOSE k \in hits : \A j \in hits : k <= j

(* /\ssrcset\s*=/.test(match): case-sensitive *)
hasSrcset(elem) == \E k \in 1..Len(elem) : elem[k].name = <<"srcset">>

(* match.replace(/\ssrcset\s*=\s*["'][^"']*["']/i, ` srcset="${srcsetValues}"`): the *)
(* first srcset attribute, in any letter case                                        *)
replaceSrcset(elem, srcsetValues) ==
  LET hits == {k \in 1..Len(elem) : LowerStr(elem[k].name) = <<"srcset">>}
  IN IF hits = {} THEN elem
     ELSE LET k == CHOOSE h \in hits : \A j \in hits : h <= j
          IN [elem EXCEPT ![k] = Attr(<<"srcset">>, srcsetValues)]

(* The replacer callback of updateContentWithPattern on one matched element *)
rewriteMatch(elem, k, srcsetValues, file, generated) ==
  LET srcValue == normalizePath(relative(dirname(file), originalImage(generated).path))
  IN IF hasSrcset(elem)
     THEN replaceSrcset(elem, srcsetValues)
     ELSE SubSeq(elem, 1, k - 1)
            \o << Attr(Front(elem[k].name) \o <<"src">>, srcValue),
                  Attr(<<"srcset">>, srcsetValues) >>
            \o SubSeq(elem, k + 1, Len(elem))

updateContentWithPattern(content, needle, srcsetValues, file, generated) ==
  [content |->
     [e \in 1..Len(content) |->
        LET k == matchIndex(content[e], needle)
        IN IF k = 0 THEN content[e]
           ELSE rewriteMatch(content[e], k, srcsetValues, file, generated)],
   updated |-> \E e \in 1..Len(content) : matchIndex(content[e], needle) # 0]

(* The nested loops of updateSingleFile: extension x of ORIGINAL_EXTS, pattern p *)
RECURSIVE patternLoop(_, _, _, _, _, _, _)
patternLoop(acc, x, p, baseName, baseRef, file, generated) ==
  IF x > Len(ORIGINAL_EXTS) THEN acc
  ELSE IF p > 2 THEN patternLoop(acc, x + 1, 1, baseName, baseRef, file, generated)
  ELSE LET needle == createPatterns(baseName, baseRef, ORIGINAL_EXTS[x])[p]
           result == updateContentWithPattern(acc.content, needle,
                       generateSrcsetValues(file, generated), file, generated)
       IN patternLoop([content |-> result.content,
                       updated |-> acc.updated \/ result.updated],
                      x, p + 1, baseName, baseRef, file, generated)

(* updateSingleFile: the content written back (the file is left alone when nothing matched) *)
updateSingleFile(content, file, baseName, baseRef, generated) ==
  LET result == patternLoop([content |-> content, updated |-> FALSE], 1, 1,
                            baseName, baseRef, file, generated)
  IN IF result.updated THEN result.content ELSE content

(* updateAll on one HTML file *)
updateAll(content, file, originalImagePath, generated) ==
  LET baseName == getBaseNameWithoutExt(originalImagePath)
      baseRef == createBaseReference(originalImagePath, baseName)
  IN updateSingleFile(content, file, baseName, baseRef, generated)

(* How a file refers to a path of the snapshot, and a srcset value written by hand *)
RefFrom(file, target) == relative(dirname(file), target)
OldSrcset == <<"old", ".jpg", " ", "1x">>

----------------------------------------------------------------------------
(* FileProcessor.updateFileReferences and CSSFontUpdater.  A text file is          *)
(* [elems, rules, minified]: its <img> elements, its url-bearing rules (for a      *)
(* script: its path literals) and whether the minifier has rewritten it.  A rule   *)
(* is [fontFace, url, format]: an @font-face block or another rule, the quoted     *)
(* path of its url(), and the name in its format("...") hint ("" when absent).     *)
Rule(ff, u, f) == [fontFace |-> ff, url |-> u, format |-> f]
Content(es, rs) == [elems |-> es, rules |-> rs, minified |-> FALSE]

(* s.includes(ref) and s.replaceAll(oldRef, newRef) on one run of text *)
includesText(s, ref) ==
  \E k \in 1..(Len(s) - Len(ref) + 1) : SubSeq(s, k, k + Len(ref) - 1) = ref

RECURSIVE replaceAllText(_, _, _)
replaceAllText(s, oldRef, newRef) ==
  IF Len(s) < Len(oldRef) THEN s
  ELSE IF SubSeq(s, 1, Len(oldRef)) = oldRef
       THEN newRef \o replaceAllText(SubSeq(s, Len(oldRef) + 1, Len(s)), oldRef, newRef)
       ELSE <<Head(s)>> \o replaceAllText(Tail(s), oldRef, newRef)

(* content.includes(ref) / content.replaceAll(oldRef, newRef) on a whole file *)
includes(content, ref) ==
  \/ \E e \in 1..Len(content.elems) : \E k \in 1..Len(content.elems[e]) :
       includesText(content.elems[e][k].val, ref)
  \/ \E r \in 1..Len(content.rules) : includesText(content.rules[r].url, ref)

replaceAll(content, oldRef, newRef) ==
  [content EXCEPT
     !.elems = [e \in 1..Len(@) |->
                  [k \in 1..Len(@[e]) |->
                     [@[e][k] EXCEPT !.val = replaceAllText(@, oldRef, newRef)]]],
     !.rules = [r \in 1..Len(@) |->
                  [@[r] EXCEPT !.url = replaceAllText(@, oldRef, newRef)]]]

(* updateSingleFileReferences: the content the file holds afterwards *)
updateSingleFileReferences(content, oldRef, newRef) ==
  IF includes(content, oldRef) THEN replaceAll(content, oldRef, newRef) ELSE content

LEGACY_FORMATS == {"truetype", "opentype", "ttf", "otf"}

(* CSSFontUpdater.updateFontFormats *)
updateFontFormats(content) ==
  LET (* content.replace(/format\s*\(\s*["'](?:truetype|opentype|ttf|otf)["']\s*\)/gi, ...) *)
      replaced == [content EXCEPT
                     !.rules = [r \in 1..Len(@) |->
                                  IF @[r].format \in LEGACY_FORMATS
                                  THEN [@[r] EXCEPT !.format = "woff2"] ELSE @[r]]]
      (* content.replace(fontFaceRegex, ...): a hint is appended to the blocks without one *)
      hinted == [replaced EXCEPT
                   !.rules = [r \in 1..Len(@) |->
                                IF /\ @[r].fontFace
                                   /\ includesText(@[r].url, <<".woff2">>)
                                   /\ @[r].format = ""
                                THEN [@[r] EXCEPT !.format = "woff2"] ELSE @[r]]]
  IN [content |-> hinted, updated |-> hinted # content]

(* CSSFontUpdater.updateSingleCssFile: the content the file holds afterwards *)
updateSingleCssFile(content, oldRef, newRef) ==
  LET substituted == IF includes(content, oldRef)
                     THEN replaceAll(content, oldRef, newRef) ELSE content
  IN IF includes(substituted, newRef)
     THEN updateFontFormats(substituted).content ELSE substituted

----------------------------------------------------------------------------
(* The source tree, and FileSystem.findFiles on its copy. *)
NImages == 3   \* rasters in the source tree

SRC_DIR == <<"src">>
IMAGE_EXTS == {".jpg", ".jpeg", ".png"}
TEXT_EXTS == {".html", ".css", ".js"}
FONT_EXTS == {".ttf", ".otf", ".woff2"}

(* fs.cpSync(srcDir, buildDir): where a source file lands *)
toBuild(p) == BUILD_DIR \o Tail(p)

(* sharpImage.metadata().width of the i-th raster *)
RasterWidth(i) == IF i % 2 = 1 THEN 256 ELSE 100

Raster(i) == toBuild(SRC_DIR \o <<"/", "img", "/", "pic", ToString(i), ".jpg">>)
Rasters == [i \in 1..NImages |-> Raster(i)]
Fonts == << toBuild(SRC_DIR \o <<"/", "fonts", "/", "a", ".ttf">>),
            toBuild(SRC_DIR \o <<"/", "fonts", "/", "b", ".otf">>),
            toBuild(SRC_DIR \o <<"/", "fonts", "/", "c", ".woff2">>) >>
StyleCss == toBuild(SRC_DIR \o <<"/", "css", "/", "style", ".css">>)
IndexHtml == toBuild(SRC_DIR \o <<"/", "index", ".html">>)
AppJs == toBuild(SRC_DIR \o <<"/", "js", "/", "app", ".js">>)
LibJs == toBuild(SRC_DIR \o <<"/", "node_modules", "/", "lib", ".js">>)
PriorFiles == { BUILD_DIR \o <<"/", "img", "/", "128", "/", "old", "-", "128", "w", ".avif">> }

(* The entries of the copy in the order the recursive readdirSync scan meets them *)
Catalog == <<StyleCss>> \o Fonts \o Rasters \o <<IndexHtml, AppJs, LibJs>>
TextPaths == {StyleCss, IndexHtml, AppJs, LibJs}

(* The text the source tree holds *)
SourceText(p) ==
  CASE p = IndexHtml ->
         Content([i \in 1..NImages |->
                    IF i = 1
                    THEN << Attr(<<"src">>, RefFrom(IndexHtml, Raster(i))),
                            Attr(<<"srcset">>, OldSrcset) >>
                    ELSE << Attr(<<"src">>, RefFrom(IndexHtml, Raster(i))),
                            Attr(<<"alt">>, <<"x">>) >>], <<>>)
    [] p = StyleCss ->
         Content(<<>>, << Rule(TRUE, RefFrom(StyleCss, Fonts[1]), "truetype"),
                          Rule(TRUE, RefFrom(StyleCss, Fonts[2]), ""),
                          Rule(TRUE, RefFrom(StyleCss, Fonts[3]), "woff2") >>)
    [] p = AppJs ->
         Content(<<>>, << Rule(FALSE, getRelativePath(BUILD_DIR, Fonts[1]), "") >>)
    [] OTHER -> Content(<<>>, <<>>)

shouldSkipEntry(name) == name = <<"node_modules">> \/ (name # <<>> /\ name[1] \in ExtTokens)
hasValidExtension(filename, extensions) == extname(filename) \in extensions

findFiles(existing, extensions) ==
  SelectSeq(Catalog,
            LAMBDA p : /\ p \in existing
                       /\ \A k \in 2..Len(Split(p)) : ~shouldSkipEntry(Split(p)[k])
                       /\ hasValidExtension(p, extensions))

----------------------------------------------------------------------------
(* The size plan calculator applied to every width up to MaxWidth. *)
CalcIdle == originalWidth = 0 /\ sizes = <<>>
HtmlIdle ==
  /\ htmlFile = <<>> /\ htmlContent = <<>> /\ imagePath = <<>>
  /\ imageWidth = 0 /\ generatedImages = <<>> /\ applied = 0

PipeIdle ==
  /\ pc = "off" /\ srcExists = FALSE /\ woff2Init = "pending"
  /\ dist = {} /\ text = <<>> /\ queue = <<>> /\ idx = 0
  /\ step = "" /\ variants = <<>> /\ passFiles = <<>> /\ processedFiles = <<>>
  /\ console = <<>>

FontIdle == cssFile = <<>> /\ cssContent = Content(<<>>, <<>>) /\ fontsDone = 0
GlyphIdle == glyf = <<>> /\ cmap = <<>> /\ filtered = FALSE
VariantIdle == passImages = <<>> /\ imgIdx = 0 /\ planIdx = 0 /\ outFiles = {}
OthersIdle == FontIdle /\ GlyphIdle /\ VariantIdle

InitCalc ==
  /\ originalWidth \in 1..MaxWidth
  /\ sizes = <<>>
  /\ HtmlIdle
  /\ PipeIdle
  /\ OthersIdle

Calculate ==
  /\ originalWidth > 0
  /\ sizes = <<>>
  /\ sizes' = calculate(originalWidth)
  /\ UNCHANGED <<originalWidth, htmlVars, pipeVars, fontVars, glyphVars, variantVars>>

NextCalc == Calculate

SpecCalc == InitCalc /\ [][NextCalc]_vars

----------------------------------------------------------------------------
(* The HTML rewriter applied, once and again, to one HTML file for one raster. *)
MaxElems == 2          \* <img> elements per HTML file
MaxApplications == 2   \* runs of updateAll on the same file

HtmlFilePaths == { <<"dist", "/", "index", ".html">>,
                   <<"dist", "/", "pages", "/", "about", ".html">> }
RasterPaths == { <<"dist", "/", "foo", ".jpg">>,
                 <<"dist", "/", "img", "/", "foo", ".jpg">> }
RasterWidths == {100, 256}
LegacyExts == {".jpg", ".jpeg", ".png", ".webp", ".avif"}

(* Two other assets of the snapshot: a file with the raster's base name in another  *)
(* directory, and, next to the raster, a file whose base name ends with the         *)
(* raster's ("bigfoo.jpg" beside "foo.jpg")                                         *)
Namesake(image) == <<"dist", "/", "other", "/">> \o basename(image)
LongerName(image) == dirname(image) \o <<"/", "big">> \o basename(image)

(* src values an element of the file may carry: the raster and its name under the   *)
(* last legacy extension, or another asset                                          *)
OwnValues(file, image) ==
  { RefFrom(file, image), RefFrom(file, changeExtension(image, ".avif")) }
OtherValues(file, image) ==
  { <<"bar", ".jpg">>, RefFrom(file, Namesake(image)), RefFrom(file, LongerName(image)) }
SrcValues(file, image) == OwnValues(file, image) \cup OtherValues(file, image)

SrcNames == { <<"src">>, <<"SRC">>, <<"data-", "src">> }
SrcsetNames == { <<"srcset">>, <<"SRCSET">> }

ImgElements(file, image) ==
  LET V == OwnValues(file, image)
      W == OtherValues(file, image)
  IN {<< Attr(n, v), Attr(<<"alt">>, <<"x">>) >> : n \in SrcNames, v \in V}
     \cup {<< Attr(sn, OldSrcset), Attr(<<"src">>, v) >> : sn \in SrcsetNames, v \in V}
     \cup {<< Attr(<<"src">>, v), Attr(sn, OldSrcset) >> : sn \in SrcsetNames, v \in V}
     \cup {<< Attr(<<"data-", "src">>, v), Attr(<<"src">>, v) >> : v \in V}
     \cup {<< Attr(<<"src">>, w), Attr(<<"alt">>, <<"x">>) >> : w \in W}
     \cup {<< Attr(<<"src">>, w), Attr(<<"srcset">>, OldSrcset) >> : w \in W}

HtmlContents(file, image) ==
  UNION {[1..n -> ImgElements(file, image)] : n \in 1..MaxElems}

InitHtml ==
  /\ CalcIdle
  /\ htmlFile \in HtmlFilePaths
  /\ imagePath \in RasterPaths
  /\ imageWidth \in RasterWidths
  /\ htmlContent \in HtmlContents(htmlFile, imagePath)
  /\ generatedImages = <<>>
  /\ applied = 0
  /\ PipeIdle
  /\ OthersIdle

(* ImageVariantGenerator.generate, every variant written *)
Generate ==
  /\ imagePath # <<>>
  /\ generatedImages = <<>>
  /\ generatedImages' = generate(imagePath, imageWidth)
  /\ UNCHANGED <<calcVars, pipeVars, fontVars, glyphVars, variantVars, htmlFile, htmlContent, imagePath, imageWidth, applied>>

(* srcsetUpdater.updateAll(originalImage.path, generatedImages) *)
UpdateAll ==
  /\ generatedImages # <<>>
  /\ applied < MaxApplications
  /\ htmlContent' = updateAll(htmlContent, htmlFile,
                              originalImage(generatedImages).path, generatedImages)
  /\ applied' = applied + 1
  /\ UNCHANGED <<calcVars, pipeVars, fontVars, glyphVars, variantVars, htmlFile, imagePath, imageWidth, generatedImages>>

NextHtml == Generate \/ UpdateAll

SpecHtml == InitHtml /\ [][NextHtml]_vars

----------------------------------------------------------------------------
(* FontOptimizer.processFont's two reference rewrites applied to one stylesheet, *)
(* for each convertible font in turn.                                            *)
MaxRules == 2   \* url-bearing rules per stylesheet

LocalCss == BUILD_DIR \o <<"/", "fonts", "/", "local", ".css">>
RootCss == BUILD_DIR \o <<"/", "root", ".css">>
StylesheetPaths == {StyleCss, LocalCss, RootCss}
FontQueue == SelectSeq(Fonts, LAMBDA f : extname(f) # ".woff2")
FormatHints == {"truetype", "opentype", "", "woff2"}

(* The rules a stylesheet may hold: @font-face blocks on any font of the snapshot *)
(* with any hint, and other rules with a url() and no hint                        *)
CssRules(sheet) ==
  {Rule(TRUE, RefFrom(sheet, Fonts[j]), h) : j \in 1..Len(Fonts), h \in FormatHints}
    \cup {Rule(FALSE, RefFrom(sheet, Fonts[j]), "") : j \in 1..Len(Fonts)}

InitFont ==
  /\ CalcIdle /\ HtmlIdle /\ PipeIdle /\ GlyphIdle /\ VariantIdle
  /\ cssFile \in StylesheetPaths
  /\ \E n \in 1..MaxRules : \E rs \in [1..n -> CssRules(cssFile)] :
       cssContent = Content(<<>>, rs)
  /\ fontsDone = 0

(* processFont after a successful conversion: updateFileReferences, then  *)
(* updateFontFormat, as they act on cssFile                                *)
ProcessFont ==
  /\ cssFile # <<>>
  /\ fontsDone < Len(FontQueue)
  /\ LET fontPath == FontQueue[fontsDone + 1]
         woff2Path == changeExtension(fontPath, ".woff2")
         oldRef == getRelativePath(BUILD_DIR, fontPath)
         newRef == getRelativePath(BUILD_DIR, woff2Path)
     IN cssContent' = updateSingleCssFile(
                        updateSingleFileReferences(cssContent, oldRef, newRef), oldRef, newRef)
  /\ fontsDone' = fontsDone + 1
  /\ UNCHANGED <<calcVars, htmlVars, pipeVars, glyphVars, variantVars, cssFile>>

NextFont == ProcessFont

SpecFont == InitFont /\ [][NextFont]_vars

----------------------------------------------------------------------------
(* The glyph filter of FontConverter.convertToWoff2.  fonteditor-core keeps the  *)
(* code points of a glyph in an array (unicode: [65]); a glyph no code point maps *)
(* to has no unicode property.  The values are JavaScript values, with the       *)
(* coercions the comparisons of the filter apply to them.                         *)
MaxGlyphs == 2   \* glyphs in the font

JsUndefined == [type |-> "undefined", num |-> 0, items |-> <<>>]
JsNumber(n) == [type |-> "number", num |-> n, items |-> <<>>]
JsArray(xs) == [type |-> "array", num |-> 0, items |-> xs]
NaN == 0 - 1     \* stands for NaN: every comparison with it below is false

(* ToBoolean(v): undefined, 0 and NaN are falsy, every array is truthy *)
truthy(v) ==
  CASE v.type = "undefined" -> FALSE
    [] v.type = "number" -> v.num # 0 /\ v.num # NaN
    [] OTHER -> TRUE

(* ToNumber(v) as >= and <= apply it: an array goes through its string, [] to 0, *)
(* [n] to n, a longer one to NaN                                                 *)
toNumber(v) ==
  CASE v.type = "undefined" -> NaN
    [] v.type = "number" -> v.num
    [] OTHER -> IF Len(v.items) = 0 THEN 0
                ELSE IF Len(v.items) = 1 THEN v.items[1] ELSE NaN

(* Array.prototype.includes compares with SameValueZero, without coercion *)
sameValueZero(v, n) == v.type = "number" /\ v.num = n

(* The property key v is turned into: String(v); for an array its items joined by "," *)
propertyKey(v) == IF v.type = "number" THEN <<v.num>> ELSE v.items

allowedRanges == << <<0, 127>>, <<128, 255>>, <<256, 591>>, <<7680, 7935>>, <<768, 879>> >>
allowedSingles == <<8363>>

(* filter: (glyph) => ... *)
glyphFilter(glyph) ==
  IF ~truthy(glyph.unicode) THEN FALSE
  ELSE LET code == glyph.unicode
       IN \/ \E r \in 1..Len(allowedRanges) :
               toNumber(code) >= allowedRanges[r][1] /\ toNumber(code) <= allowedRanges[r][2]
          \/ \E q \in 1..Len(allowedSingles) : sameValueZero(code, allowedSingles[q])

(* keptGlyphs.reduce(...): a later glyph with the same key replaces an earlier one *)
cmapOf(kept) ==
  LET mapped == {k \in 1..Len(kept) : truthy(kept[k].unicode)}
      keys == {propertyKey(kept[k].unicode) : k \in mapped}
  IN [key \in keys |->
        kept[CHOOSE k \in mapped :
               /\ propertyKey(kept[k].unicode) = key
               /\ \A j \in mapped : propertyKey(kept[j].unicode) = key => j <= k].name]

(* Code points at and around the ends of every allow-listed range, and the singleton *)
CodePoints == {0, 65, 127, 128, 255, 256, 591, 592, 767, 768, 879, 880,
               7679, 7680, 7935, 7936, 8363, 8364}
UnicodeValues ==
  {JsUndefined} \cup {JsArray(<<c>>) : c \in CodePoints}
    \cup {JsArray(<<65, 97>>), JsArray(<<65, 913>>)}

InitGlyph ==
  /\ CalcIdle /\ HtmlIdle /\ PipeIdle /\ FontIdle /\ VariantIdle
  /\ \E n \in 1..MaxGlyphs : \E us \in [1..n -> UnicodeValues] :
       glyf = [k \in 1..n |-> [name |-> <<"glyph", k>>, unicode |-> us[k]]]
  /\ cmap = <<>>
  /\ filtered = FALSE

(* font.find({filter}), fontData.glyf = keptGlyphs, fontData.cmap = reduce(...) *)
FilterGlyphs ==
  /\ glyf # <<>> /\ ~filtered
  /\ glyf' = SelectSeq(glyf, glyphFilter)
  /\ cmap' = cmapOf(glyf')
  /\ filtered' = TRUE
  /\ UNCHANGED <<calcVars, htmlVars, pipeVars, fontVars, variantVars>>

NextGlyph == FilterGlyphs

SpecGlyph == InitGlyph /\ [][NextGlyph]_vars

----------------------------------------------------------------------------
(* The variant files one image pass writes, raster after raster, entry after entry. *)
PassSize == 2   \* rasters the pass found

PassRasters == { <<"dist", "/", "img", "/", "foo", ".jpg">>,
                 <<"dist", "/", "img", "/", "foo", ".png">>,
                 <<"dist", "/", "img", "/", "bar", ".jpg">>,
                 <<"dist", "/", "foo", ".jpg">> }
PassWidths == {100, 256, 1100}

InitVariants ==
  /\ CalcIdle /\ HtmlIdle /\ PipeIdle /\ FontIdle /\ GlyphIdle
  /\ \E ps \in [1..PassSize -> PassRasters] : \E ws \in [1..PassSize -> PassWidths] :
       /\ \A a, b \in 1..PassSize : a # b => ps[a] # ps[b]
       /\ passImages = [k \in 1..PassSize |-> [path |-> ps[k], width |-> ws[k]]]
  /\ imgIdx = 1
  /\ planIdx = 1
  /\ outFiles = {}

(* generateSingleVariant(sizeInfo) for the next entry of the plan of the raster at imgIdx *)
WriteVariant ==
  /\ imgIdx \in 1..Len(passImages)
  /\ LET img == passImages[imgIdx]
         plan == calculate(img.width)
     IN /\ outFiles' = outFiles \cup {outputPath(img.path, plan[planIdx])}
        /\ IF planIdx < Len(plan)
           THEN planIdx' = planIdx + 1 /\ imgIdx' = imgIdx
           ELSE planIdx' = 1 /\ imgIdx' = imgIdx + 1
  /\ UNCHANGED <<calcVars, htmlVars, pipeVars, fontVars, glyphVars, passImages>>

NextVariants == WriteVariant

SpecVariants == InitVariants /\ [][NextVariants]_vars

----------------------------------------------------------------------------
(* BuildOptimizer.optimize: prepare, then the image, font and minify passes. *)
Entry(pass, what, path) == [pass |-> pass, what |-> what, path |-> path]

(* Mutant: the minifier runs second, the font optimizer last. *)
nextPass_minifySecond(p) ==
  CASE p = "image" -> "minify"
    [] p = "minify" -> "font"
    [] p = "font" -> "done"
    [] OTHER -> p

(* The order of the optimizers array *)
nextPass(p) ==
  CASE p = "image" -> "font"
    [] p = "font" -> "minify"
    [] p = "minify" -> "done"
    [] OTHER -> p

firstStep(p) ==
  CASE p = "image" -> "metadata"
    [] p = "font" -> "convert"
    [] OTHER -> "minify"

(* Mutant: the catch block leaves the loop. *)
afterCatch_break(i, n) == n + 1

(* The asset the for loop takes after the catch block has logged a failure *)
afterCatch(i, n) == i + 1

RasterIndex(path) == CHOOSE i \in 1..NImages : Raster(i) = path
PathsOf(vs) == [k \in 1..Len(vs) |-> vs[k].path]

(* The loop moves to asset nextIdx, or the pass returns files to the orchestrator *)
Advance(nextIdx, files, printed) ==
  /\ console' = printed
  /\ IF nextIdx <= Len(queue)
     THEN /\ idx' = nextIdx
          /\ step' = firstStep(pc)
          /\ passFiles' = files
          /\ UNCHANGED <<pc, queue, processedFiles>>
     ELSE /\ pc' = nextPass(pc)
          /\ step' = "start"
          /\ idx' = 0
          /\ queue' = <<>>
          /\ passFiles' = <<>>
          /\ processedFiles' = processedFiles \o files

(* catch (error) { console.error(...) } of the running pass *)
Catch(printed) ==
  Advance(afterCatch(idx, Len(queue)), passFiles,
          Append(printed, Entry(pc, "failed", queue[idx])))

InitPipe ==
  /\ CalcIdle /\ HtmlIdle /\ OthersIdle
  /\ pc = "idle"
  /\ srcExists \in BOOLEAN
  /\ woff2Init = "pending"
  /\ dist \in {{}, PriorFiles}    \* the build directory may hold an earlier run's output
  /\ text = <<>> /\ queue = <<>> /\ idx = 0 /\ step = "" /\ variants = <<>>
  /\ passFiles = <<>> /\ processedFiles = <<>> /\ console = <<>>

(* BuildDirectoryManager.prepare, then the optimizers are constructed *)
Prepare ==
  /\ pc = "idle"
  /\ IF srcExists
     THEN /\ dist' = {Catalog[k] : k \in 1..Len(Catalog)}
          /\ text' = [p \in TextPaths |-> SourceText(p)]
          /\ pc' = "image"
          /\ step' = "start"
     ELSE /\ dist' = {}
          /\ pc' = "failed"
          /\ UNCHANGED <<text, step>>
  /\ UNCHANGED <<calcVars, htmlVars, fontVars, glyphVars, variantVars, envVars, woff2Init, queue, idx, variants, passFiles,
                 processedFiles, console>>

(* The pass lists its files; with none it returns at once *)
StartPass(files) ==
  /\ step = "start"
  /\ IF files = <<>>
     THEN /\ pc' = nextPass(pc)
          /\ UNCHANGED <<queue, idx, step>>
     ELSE /\ queue' = files
          /\ idx' = 1
          /\ step' = firstStep(pc)
          /\ UNCHANGED pc
  /\ passFiles' = <<>>
  /\ UNCHANGED <<calcVars, htmlVars, fontVars, glyphVars, variantVars, envVars, woff2Init, dist, text, variants, processedFiles, console>>

StartImagePass == pc = "image" /\ StartPass(findFiles(dist, IMAGE_EXTS))
StartFontPass == pc = "font" /\ StartPass(findFiles(dist, FONT_EXTS))
StartMinifyPass ==
  pc = "minify" /\ StartPass(findFiles(dist, {".js"}) \o findFiles(dist, {".css"}))

(* generate(): await sharpImage.metadata(); the width may be missing *)
ReadMetadata ==
  /\ pc = "image" /\ step = "metadata"
  /\ \/ /\ step' = "variant"
        /\ variants' = <<>>
        /\ UNCHANGED <<pc, queue, idx, passFiles, processedFiles, console>>
     \/ /\ Catch(console)
        /\ UNCHANGED variants
  /\ UNCHANGED <<calcVars, htmlVars, fontVars, glyphVars, variantVars, envVars, woff2Init, dist, text>>

(* Mutant: generate() passes over the entry that failed and goes on with the next one. *)
VariantFailed_skipped(image, plan, k) ==
  /\ variants' = Append(variants, variantOf(image, plan[k]))
  /\ step' = IF k = Len(plan) THEN "unlink" ELSE "variant"
  /\ UNCHANGED <<dist, pc, queue, idx, passFiles, processedFiles, console>>

(* generateSingleVariant throws: nothing in generate() or processImage catches it, *)
(* the catch block of the pass loop does                                           *)
VariantFailed(image, plan, k) ==
  /\ Catch(console)
  /\ UNCHANGED <<dist, variants>>

(* generate(): await generateSingleVariant(sizeInfo) for the next plan entry *)
GenerateVariant ==
  /\ pc = "image" /\ step = "variant"
  /\ LET image == queue[idx]
         plan == calculate(RasterWidth(RasterIndex(image)))
         k == Len(variants) + 1
     IN \/ /\ dist' = dist \cup {outputPath(image, plan[k])}
           /\ variants' = Append(variants, variantOf(image, plan[k]))
           /\ step' = IF k = Len(plan) THEN "unlink" ELSE "variant"
           /\ UNCHANGED <<pc, queue, idx, passFiles, processedFiles, console>>
        \/ VariantFailed(image, plan, k)
  /\ UNCHANGED <<calcVars, htmlVars, fontVars, glyphVars, variantVars, envVars, woff2Init, text>>

(* processImage: fs.unlinkSync(imagePath) *)
UnlinkOriginal ==
  /\ pc = "image" /\ step = "unlink"
  /\ \/ /\ dist' = dist \ {queue[idx]}
        /\ step' = "rewrite"
        /\ UNCHANGED <<pc, queue, idx, passFiles, processedFiles, console>>
     \/ /\ Catch(console)
        /\ UNCHANGED dist
  /\ UNCHANGED <<calcVars, htmlVars, fontVars, glyphVars, variantVars, envVars, woff2Init, text, variants>>

(* The files[1..n] for which changed holds, as console lines of the running pass *)
UpdatedLines(files, n, changed(_)) ==
  LET hit == SelectSeq(SubSeq(files, 1, n), changed)
  IN [k \in 1..Len(hit) |-> Entry(pc, "updated", hit[k])]

(* How many files a forEach handles when the file at failAt cannot be read or written *)
Handled(files, failAt) == IF failAt = 0 THEN Len(files) ELSE failAt - 1

(* processImage: srcsetUpdater.updateAll(...), the log line and the return *)
RewriteHtml ==
  /\ pc = "image" /\ step = "rewrite"
  /\ LET htmlFiles == findFiles(dist, {".html"})
         orig == originalImage(variants).path
         baseName == getBaseNameWithoutExt(orig)
         baseRef == createBaseReference(orig, baseName)
         written(f) == patternLoop([content |-> text[f].elems, updated |-> FALSE], 1, 1,
                                   baseName, baseRef, f, variants).updated
     IN \E failAt \in 0..Len(htmlFiles) :
          LET n == Handled(htmlFiles, failAt)
              printed == console \o UpdatedLines(htmlFiles, n, written)
          IN /\ text' = [p \in DOMAIN text |->
                           IF \E j \in 1..n : htmlFiles[j] = p
                           THEN [text[p] EXCEPT !.elems = updateAll(@, p, orig, variants)]
                           ELSE text[p]]
             /\ IF failAt = 0
                THEN Advance(idx + 1, passFiles \o PathsOf(variants),
                             Append(printed, Entry(pc, "processed", queue[idx])))
                ELSE Catch(printed)
  /\ UNCHANGED <<calcVars, htmlVars, fontVars, glyphVars, variantVars, envVars, woff2Init, dist, variants>>

(* Mutant: the original font is unlinked right after the conversion, before the rewrites. *)
fontStepAfter_unlinkFirst(s) ==
  CASE s = "convert" -> "unlink"
    [] s = "unlink" -> "refs"
    [] s = "refs" -> "css"
    [] OTHER -> "return"

(* Mutant: processFont returns once the conversion is under way; its rewrites and *)
(* the unlink have not run when the loop takes the next font.                    *)
fontStepAfter_notAwaited(s) == "return"

(* The statements of processFont in order: convert, updateFileReferences, *)
(* updateFontFormat, unlinkSync, return                                    *)
fontStepAfter(s) ==
  CASE s = "convert" -> "refs"
    [] s = "refs" -> "css"
    [] s = "css" -> "unlink"
    [] OTHER -> "return"

(* A statement of processFont completed: the next one, or the log line and the return *)
FontStepDone(printed) ==
  IF fontStepAfter(step) = "return"
  THEN Advance(idx + 1, Append(passFiles, changeExtension(queue[idx], ".woff2")),
               Append(printed, Entry(pc, "processed", queue[idx])))
  ELSE /\ step' = fontStepAfter(step)
       /\ console' = printed
       /\ UNCHANGED <<pc, queue, idx, passFiles, processedFiles>>

(* processFont: an already compressed font is passed over *)
SkipCompressedFont ==
  /\ pc = "font" /\ step = "convert"
  /\ extname(queue[idx]) = ".woff2"
  /\ Advance(idx + 1, passFiles, console)
  /\ UNCHANGED <<calcVars, htmlVars, fontVars, glyphVars, variantVars, envVars, woff2Init, dist, text, variants>>

(* processFont: await this.converter.convertToWoff2(fontPath) *)
ConvertFont ==
  /\ pc = "font" /\ step = "convert"
  /\ extname(queue[idx]) # ".woff2"
  /\ \E ready \in (IF woff2Init = "pending" THEN {"ok", "rejected"} ELSE {woff2Init}) :
       /\ woff2Init' = ready
       /\ \/ /\ ready = "ok"
             /\ dist' = dist \cup {changeExtension(queue[idx], ".woff2")}
             /\ FontStepDone(console)
          \/ /\ Catch(console)
             /\ UNCHANGED dist
  /\ UNCHANGED <<calcVars, htmlVars, fontVars, glyphVars, variantVars, envVars, text, variants>>

(* woff2Ready rejects while nothing awaits it yet: the promise built in the          *)
(* FontConverter constructor has no handler before the first convertToWoff2, and a  *)
(* runtime that throws on unhandled rejections ends the process on the spot (one    *)
(* that only warns goes on, and ConvertFont then sees the rejection).               *)
Woff2RejectionUnhandled ==
  /\ pc \in {"image", "font"}
  /\ woff2Init = "pending"
  /\ woff2Init' = "rejected"
  /\ pc' = "failed"
  /\ UNCHANGED <<calcVars, htmlVars, fontVars, glyphVars, variantVars, envVars, dist, text, queue, idx, step, variants,
                 passFiles, processedFiles, console>>

(* processFont: this.updateFileReferences(fontPath, woff2Path) *)
UpdateFontReferences ==
  /\ pc = "font" /\ step = "refs"
  /\ LET textFiles == findFiles(dist, TEXT_EXTS)
         oldRef == getRelativePath(BUILD_DIR, queue[idx])
         newRef == getRelativePath(BUILD_DIR, changeExtension(queue[idx], ".woff2"))
         written(f) == includes(text[f], oldRef)
     IN \E failAt \in 0..Len(textFiles) :
          LET n == Handled(textFiles, failAt)
              printed == console \o UpdatedLines(textFiles, n, written)
          IN /\ text' = [p \in DOMAIN text |->
                           IF \E j \in 1..n : textFiles[j] = p
                           THEN updateSingleFileReferences(text[p], oldRef, newRef)
                           ELSE text[p]]
             /\ IF failAt = 0
                THEN FontStepDone(printed)
                ELSE Catch(printed)
  /\ UNCHANGED <<calcVars, htmlVars, fontVars, glyphVars, variantVars, envVars, woff2Init, dist, variants>>

(* processFont: this.cssUpdater.updateFontFormat(fontPath, woff2Path) *)
UpdateFontFormat ==
  /\ pc = "font" /\ step = "css"
  /\ LET cssFiles == findFiles(dist, {".css"})
         oldRef == getRelativePath(BUILD_DIR, queue[idx])
         newRef == getRelativePath(BUILD_DIR, changeExtension(queue[idx], ".woff2"))
         written(f) == updateSingleCssFile(text[f], oldRef, newRef) # text[f]
     IN \E failAt \in 0..Len(cssFiles) :
          LET n == Handled(cssFiles, failAt)
              printed == console \o UpdatedLines(cssFiles, n, written)
          IN /\ text' = [p \in DOMAIN text |->
                           IF \E j \in 1..n : cssFiles[j] = p
                           THEN updateSingleCssFile(text[p], oldRef, newRef)
                           ELSE text[p]]
             /\ IF failAt = 0
                THEN FontStepDone(printed)
                ELSE Catch(printed)
  /\ UNCHANGED <<calcVars, htmlVars, fontVars, glyphVars, variantVars, envVars, woff2Init, dist, variants>>

(* processFont: fs.unlinkSync(fontPath), the log line and the return *)
UnlinkFont ==
  /\ pc = "font" /\ step = "unlink"
  /\ \/ /\ dist' = dist \ {queue[idx]}
        /\ FontStepDone(console)
     \/ /\ Catch(console)
        /\ UNCHANGED dist
  /\ UNCHANGED <<calcVars, htmlVars, fontVars, glyphVars, variantVars, envVars, woff2Init, text, variants>>

(* CodeMinifier.processFiles: one file read, minified and written back, or the failure logged *)
MinifyFile ==
  /\ pc = "minify" /\ step = "minify"
  /\ \/ /\ text' = [text EXCEPT ![queue[idx]].minified = TRUE]
        /\ Advance(idx + 1, Append(passFiles, queue[idx]),
                   Append(console, Entry(pc, "processed", queue[idx])))
     \/ /\ Catch(console)
        /\ UNCHANGED text
  /\ UNCHANGED <<calcVars, htmlVars, fontVars, glyphVars, variantVars, envVars, woff2Init, dist, variants>>

Next ==
  \/ Prepare
  \/ StartImagePass \/ ReadMetadata \/ GenerateVariant \/ UnlinkOriginal \/ RewriteHtml
  \/ StartFontPass \/ SkipCompressedFont \/ ConvertFont \/ Woff2RejectionUnhandled
  \/ UpdateFontReferences
  \/ UpdateFontFormat \/ UnlinkFont
  \/ StartMinifyPass \/ MinifyFile

Spec == InitPipe /\ [][Next]_vars

----------------------------------------------------------------------------
(* Properties of the size plan. *)
Widths(plan) == [k \in 1..Len(plan) |-> plan[k].width]
StrictlyIncreasing(ws) == \A k \in 1..(Len(ws) - 1) : ws[k] < ws[k + 1]
NonDecreasing(ws) == \A k \in 1..(Len(ws) - 1) : ws[k] <= ws[k + 1]
OriginalEntries(plan) == {k \in 1..Len(plan) : plan[k].type = "original"}
Intermediates(plan) == SelectSeq(plan, LAMBDA e : e.type = "intermediate")
(* r is num/den rounded to the nearest integer, halves up: r - 1/2 <= num/den < r + 1/2 *)
IsRounded(r, num, den) == 2 * den * r <= 2 * num + den /\ 2 * num + den < 2 * den * (r + 1)
Rounded(num, den) == CHOOSE r \in 0..num : IsRounded(r, num, den)
CalcDone == sizes # <<>>

(* The widths claim C2 expects for originalWidth <= 1024: 128, 256, ...,          *)
(* floor(originalWidth/128)*128, then originalWidth.                               *)
SmallPlanWidths(w) ==
  [k \in 1..((w \div 128) + 1) |-> IF k <= w \div 128 THEN 128 * k ELSE w]

(* C2 as stated: for originalWidth <= 1024 the plan's widths are the multiples of  *)
(* 128 up to floor(originalWidth/128)*128 followed by the original entry, strictly *)
(* increasing along the whole sequence, with exactly one entry of kind original.   *)
C2_Original ==
  (CalcDone /\ originalWidth <= 1024) =>
    /\ Widths(sizes) = SmallPlanWidths(originalWidth)
    /\ StrictlyIncreasing(Widths(sizes))
    /\ Cardinality(OriginalEntries(sizes)) = 1

(* C2 amended: for originalWidth <= 1024 the plan's widths are the multiples of    *)
(* 128 up to floor(originalWidth/128)*128 followed by the original entry, with     *)
(* exactly one entry of kind original (the last); the widths are non-decreasing,   *)
(* strictly increasing before the original entry, and the original entry repeats   *)
(* the width of the last increment exactly when originalWidth is a multiple of 128.*)
C2_SmallPlan ==
  (CalcDone /\ originalWidth <= 1024) =>
    LET ws == Widths(sizes)
        n == Len(sizes)
    IN /\ ws = SmallPlanWidths(originalWidth)
       /\ OriginalEntries(sizes) = {n}
       /\ \A k \in 1..(n - 1) : sizes[k].type = "increment"
       /\ StrictlyIncreasing(SubSeq(ws, 1, n - 1))
       /\ NonDecreasing(ws)
       /\ (n > 1 /\ ws[n - 1] = ws[n]) <=> (originalWidth % 128 = 0)

(* C2 witness: the plan of a width that is itself a multiple of 128 *)
C2_Witness == CalcDone /\ originalWidth = 256 /\ Len(sizes) = 3

(* C3: for originalWidth > 1024 with diff = originalWidth - 1024: if round(diff/4)  *)
(* >= 128 the intermediate entries are exactly 1024+round(diff/4),                  *)
(* 1024+round(diff/2), 1024+round(3*diff/4) with buckets 25, 50, 75 in that order,  *)
(* otherwise the single entry 1024+round(diff/2) with bucket 50; no intermediate    *)
(* entry for originalWidth <= 1024; 2000 gives 1268, 1512, 1756, 2000 after the     *)
(* increments and 1100 gives only 1062 and 1100 above 1024.                         *)
C3_Intermediate ==
  CalcDone =>
    LET w == originalWidth
        diff == w - 1024
        inter == Intermediates(sizes)
        ws == Widths(sizes)
        entry(wd, b) == [width |-> wd, folder |-> b, type |-> "intermediate"]
    IN /\ w <= 1024 => inter = <<>>
       /\ w > 1024 =>
            IF Rounded(diff, 4) >= 128
            THEN inter = << entry(1024 + Rounded(diff, 4), "25"),
                            entry(1024 + Rounded(diff, 2), "50"),
                            entry(1024 + Rounded(3 * diff, 4), "75") >>
            ELSE inter = << entry(1024 + Rounded(diff, 2), "50") >>
       /\ w = 2000 => ws = <<128, 256, 384, 512, 640, 768, 896, 1024, 1268, 1512, 1756, 2000>>
       /\ w = 1100 => ws = <<128, 256, 384, 512, 640, 768, 896, 1024, 1062, 1100>>

(* C3 witness: the plan of width 2000 has its three intermediate entries *)
C3_Witness == CalcDone /\ originalWidth = 2000 /\ Len(Intermediates(sizes)) = 3

(* C4: every plan is non-decreasing by width, has exactly one entry of kind         *)
(* original, which is the last entry, has bucket "original" and the original width, *)
(* and the other entries have pairwise distinct widths.                             *)
C4_PlanInvariant ==
  CalcDone =>
    LET n == Len(sizes)
    IN /\ NonDecreasing(Widths(sizes))
       /\ OriginalEntries(sizes) = {n}
       /\ sizes[n].folder = "original"
       /\ sizes[n].width = originalWidth
       /\ \A j, k \in 1..(n - 1) : j # k => sizes[j].width # sizes[k].width

(* C4 witness: a plan whose original width coincides with the intermediate entry *)
C4_Witness ==
  /\ CalcDone /\ originalWidth = 1025
  /\ sizes[Len(sizes) - 1].width = 1025 /\ sizes[Len(sizes) - 1].type = "intermediate"

----------------------------------------------------------------------------
(* Properties of the pipeline run. *)
Logged(pass, what, path) == \E k \in 1..Len(console) : console[k] = Entry(pass, what, path)
Range(f) == {f[k] : k \in DOMAIN f}
Running == pc \in {"image", "font", "minify", "done"}
PlanPaths(i) == PathsOf(generate(Raster(i), RasterWidth(i)))
ConvertibleFonts == {j \in 1..Len(Fonts) : extname(Fonts[j]) # ".woff2"}
Woff2Of(j) == changeExtension(Fonts[j], ".woff2")
MinifyList == <<AppJs, StyleCss>>

(* C1 as stated: a raster is deleted only after every plan entry is materialized   *)
(* and its HTML rewriting has completed, and a raster whose materialization or      *)
(* rewriting failed is still in the build snapshot.                                 *)
C1_Original ==
  Running =>
    \A i \in 1..NImages :
      /\ Raster(i) \notin dist =>
           /\ Range(PlanPaths(i)) \subseteq dist
           /\ Logged("image", "processed", Raster(i))
      /\ Logged("image", "failed", Raster(i)) => Raster(i) \in dist

(* C7 as stated: on a fatal setup failure (source directory missing, woff2          *)
(* initialization rejected) the run aborts before any mutation: nothing of the      *)
(* build directory is created, modified or deleted.                                 *)
C7_Original ==
  [][/\ pc' = "failed" => UNCHANGED <<dist, text>>
     /\ woff2Init' = "rejected" =>
          pc' = "failed" /\ dist' \subseteq PriorFiles /\ text' = <<>>]_vars

(* What each pass returns when exactly the assets logged as processed succeeded *)
RECURSIVE ImagePart(_)
ImagePart(i) ==
  IF i > NImages THEN <<>>
  ELSE (IF Logged("image", "processed", Raster(i)) THEN PlanPaths(i) ELSE <<>>)
         \o ImagePart(i + 1)
RECURSIVE FontPart(_)
FontPart(j) ==
  IF j > Len(Fonts) THEN <<>>
  ELSE (IF Logged("font", "processed", Fonts[j]) THEN <<Woff2Of(j)>> ELSE <<>>)
         \o FontPart(j + 1)
RECURSIVE MinifyPart(_)
MinifyPart(m) ==
  IF m > Len(MinifyList) THEN <<>>
  ELSE (IF Logged("minify", "processed", MinifyList[m]) THEN <<MinifyList[m]>> ELSE <<>>)
         \o MinifyPart(m + 1)

(* C5: a failing asset does not stop its pass: when the run is done every raster,   *)
(* every convertible font and every script/style file has been either processed or  *)
(* reported failed, never both; a failed asset contributes no path and every        *)
(* processed one contributes all its outputs, in order, to the returned list.       *)
C5_FaultIsolation ==
  pc = "done" =>
    /\ \A i \in 1..NImages :
         Logged("image", "processed", Raster(i)) # Logged("image", "failed", Raster(i))
    /\ \A j \in ConvertibleFonts :
         Logged("font", "processed", Fonts[j]) # Logged("font", "failed", Fonts[j])
    /\ \A m \in 1..Len(MinifyList) :
         Logged("minify", "processed", MinifyList[m]) # Logged("minify", "failed", MinifyList[m])
    /\ \A i \in 1..NImages :
         Logged("image", "failed", Raster(i)) =>
           Range(PlanPaths(i)) \cap Range(processedFiles) = {}
    /\ \A j \in ConvertibleFonts :
         Logged("font", "failed", Fonts[j]) => Woff2Of(j) \notin Range(processedFiles)
    /\ processedFiles = ImagePart(1) \o FontPart(1) \o MinifyPart(1)

(* C5 witness: the second raster failed, the first and the third were processed and *)
(* their variants are in the returned list                                          *)
C5_Witness ==
  /\ pc = "done"
  /\ Logged("image", "failed", Raster(2))
  /\ Logged("image", "processed", Raster(1)) /\ Logged("image", "processed", Raster(3))
  /\ Range(PlanPaths(1)) \cup Range(PlanPaths(3)) \subseteq Range(processedFiles)
  /\ \E j \in ConvertibleFonts : Logged("font", "failed", Fonts[j])
  /\ \E j \in ConvertibleFonts : Logged("font", "processed", Fonts[j])

(* Both reference rewrites for font j have nothing left to do in any text file *)
RewritesDone(j) ==
  LET oldRef == getRelativePath(BUILD_DIR, Fonts[j])
      newRef == getRelativePath(BUILD_DIR, Woff2Of(j))
      textFiles == findFiles(dist, TEXT_EXTS)
      cssFiles == findFiles(dist, {".css"})
  IN /\ \A k \in 1..Len(textFiles) : ~includes(text[textFiles[k]], oldRef)
     /\ \A k \in 1..Len(cssFiles) :
          updateSingleCssFile(text[cssFiles[k]], oldRef, newRef) = text[cssFiles[k]]

(* C14: in the font pass an original font is deleted only when its woff2 file has    *)
(* been written and both reference rewrites for it have run over every text file    *)
(* without error; a font reported failed is still at its path when the pass goes on *)
(* (and ever after).                                                                *)
C14_FontDeletedLast ==
  [][\A j \in ConvertibleFonts :
       /\ (Fonts[j] \in dist /\ Fonts[j] \notin dist') =>
            /\ pc = "font" /\ queue[idx] = Fonts[j]
            /\ Woff2Of(j) \in dist
            /\ RewritesDone(j)
            /\ ~Logged("font", "failed", Fonts[j])'
       /\ Logged("font", "failed", Fonts[j])' => Fonts[j] \in dist']_vars

(* C14 witness: the first font was converted, rewritten and deleted; the second was *)
(* converted but a rewrite failed, and it is still in place when the pass is over   *)
C14_Witness ==
  /\ pc \in {"minify", "done"}
  /\ Fonts[1] \notin dist /\ Woff2Of(1) \in dist /\ Logged("font", "processed", Fonts[1])
  /\ Fonts[2] \in dist /\ Woff2Of(2) \in dist /\ Logged("font", "failed", Fonts[2])

(* The text files that hold the build-relative reference to the font being processed *)
HoldOldRef(t) ==
  {p \in Range(findFiles(dist, TEXT_EXTS)) :
     includes(t[p], getRelativePath(BUILD_DIR, queue[idx]))}

(* C15 as stated: when one text file cannot be read or written during the literal   *)
(* substitution for a font, every other text file holding the old reference is      *)
(* still rewritten: at most the failing file holds the old reference afterwards.    *)
C15_Original ==
  [][(pc = "font" /\ step = "refs") =>
       Cardinality(HoldOldRef(text) \cap HoldOldRef(text')) <= 1]_vars

(* The image pass is past raster i *)
PastImage(i) == pc \in {"font", "minify", "done"} \/ (pc = "image" /\ idx > i)

(* C16: when the k-th plan entry of a raster could not be materialized (or its      *)
(* width could not be read, k = 1), no later entry of its plan has a file, its      *)
(* <img> element is as the source tree had it, the raster is reported failed and    *)
(* is still there, and the pass went on: once the image pass is over every raster   *)
(* has been processed or reported failed.                                           *)
C16_FailedVariantAborts ==
  /\ \A i \in 1..NImages :
       PastImage(i) =>
         LET paths == PlanPaths(i)
             missing == {k \in 1..Len(paths) : paths[k] \notin dist}
         IN missing # {} =>
         /\ \A k \in missing : \A m \in (k + 1)..Len(paths) : m \in missing
         /\ text[IndexHtml].elems[i] = SourceText(IndexHtml).elems[i]
         /\ Raster(i) \in dist
         /\ Logged("image", "failed", Raster(i))
         /\ ~Logged("image", "processed", Raster(i))
  /\ pc \in {"font", "minify", "done"} =>
       \A i \in 1..NImages :
         Logged("image", "processed", Raster(i)) \/ Logged("image", "failed", Raster(i))

(* C16 witness: the second entry of the first raster's plan failed after the first  *)
(* was written; the pass went on and processed the third raster                     *)
C16_Witness ==
  /\ pc = "done"
  /\ PlanPaths(1)[1] \in dist /\ PlanPaths(1)[2] \notin dist /\ PlanPaths(1)[3] \notin dist
  /\ Logged("image", "failed", Raster(1))
  /\ Logged("image", "processed", Raster(3))

PassRank(pass) == CASE pass = "image" -> 1 [] pass = "font" -> 2 [] OTHER -> 3

(* C6: the passes run strictly in the order image, font, minify: nothing the font   *)
(* pass does (a woff2 written, a font reference rewritten) happens before the image *)
(* pass is over, nothing is minified before the font pass is over, and no reference *)
(* rewrite is written to a text file after that file was minified.                  *)
C6_PassOrder ==
  /\ \A a, b \in 1..Len(console) :
       a < b => PassRank(console[a].pass) <= PassRank(console[b].pass)
  /\ (\E j \in ConvertibleFonts : Woff2Of(j) \in dist) => pc \in {"font", "minify", "done"}
  /\ (\E f \in DOMAIN text : text[f].minified) => pc \in {"minify", "done"}
  /\ \A a, b \in 1..Len(console) :
       (a < b /\ console[a].pass = "minify" /\ console[a].what = "processed")
         => ~(console[b].what = "updated" /\ console[b].path = console[a].path)

(* C6 witness: a finished run in which the image pass rewrote the HTML file, the    *)
(* font pass rewrote the stylesheet and the minifier then minified the stylesheet   *)
C6_Witness ==
  /\ pc = "done"
  /\ Logged("image", "updated", IndexHtml)
  /\ Logged("font", "updated", StyleCss)
  /\ Logged("minify", "processed", StyleCss)
  /\ text[StyleCss].minified

----------------------------------------------------------------------------
(* Properties of the font reference rewrites. *)
FontStep == fontsDone' = fontsDone + 1
ConvertedFont == FontQueue[fontsDone + 1]
RulesOf(c) == 1..Len(c.rules)

(* C12 as stated: once processFont has converted F, every stylesheet occurrence of *)
(* a reference to F is a reference to F.woff2, whatever the directory of the       *)
(* stylesheet, and no font-face block that referred to F keeps a legacy hint.      *)
C12_Original ==
  [][FontStep =>
       \A r \in RulesOf(cssContent) :
         cssContent.rules[r].url = RefFrom(cssFile, ConvertedFont) =>
           /\ cssContent'.rules[r].url
                = RefFrom(cssFile, changeExtension(ConvertedFont, ".woff2"))
           /\ (cssContent.rules[r].fontFace
                 => cssContent'.rules[r].format \notin LEGACY_FORMATS)]_vars

(* C13 as stated: when a font is converted, every rule of the stylesheet whose URL *)
(* does not point at that font keeps its url and its format hint.                  *)
C13_Original ==
  [][FontStep =>
       \A r \in RulesOf(cssContent) :
         cssContent.rules[r].url # RefFrom(cssFile, ConvertedFont) =>
           cssContent'.rules[r] = cssContent.rules[r]]_vars

----------------------------------------------------------------------------
(* Properties of the glyph filter. *)
(* 0x0000-0x007F, 0x0080-0x00FF, 0x0100-0x024F, 0x1E00-0x1EFF, 0x0300-0x036F, 0x20AB *)
AllowListed(c) ==
  \/ c \in 0..591
  \/ c \in 768..879
  \/ c \in 7680..7935
  \/ c = 8363
GlyphCodePoints(g) == Range(g.unicode.items)

(* C17 as stated: a glyph all of whose code points are allow-listed is retained, a  *)
(* glyph none of whose code points is allow-listed (or that has none) is absent,    *)
(* and the keys of the rebuilt cmap are exactly the code points of the retained     *)
(* glyphs.                                                                          *)
C17_Original ==
  [][(filtered' /\ ~filtered) =>
       /\ \A k \in 1..Len(glyf) :
            LET cps == GlyphCodePoints(glyf[k])
            IN /\ (cps # {} /\ \A c \in cps : AllowListed(c)) => glyf[k] \in Range(glyf')
               /\ (\A c \in cps : ~AllowListed(c)) => glyf[k] \notin Range(glyf')
       /\ DOMAIN cmap' = {<<c>> : c \in UNION {GlyphCodePoints(glyf'[k]) : k \in 1..Len(glyf')}}]_vars

----------------------------------------------------------------------------
(* Properties of the variant paths. *)

(* C19 as stated: every variant written in an image pass goes to a path no earlier *)
(* variant of the pass, of the same raster or of another, was written to.          *)
C19_Original ==
  [][(imgIdx' # imgIdx \/ planIdx' # planIdx) => outFiles' # outFiles]_vars

----------------------------------------------------------------------------
(* Properties of the HTML rewriter. *)

(* The element's src attribute (the one a renderer reads), <<>> when it has none *)
SrcAttrs(elem) == {k \in 1..Len(elem) : LowerStr(elem[k].name) = <<"src">>}
SrcsetAttrs(elem) == {k \in 1..Len(elem) : LowerStr(elem[k].name) = <<"srcset">>}

(* The element's src resolves to the raster, under its own or a legacy extension *)
RefersTo(elem, file, image) ==
  \E k \in SrcAttrs(elem) : \E x \in LegacyExts :
    elem[k].val = RefFrom(file, changeExtension(image, x))

OriginalVariantPath(image) ==
  dirname(image) \o <<"/", "original", "/">> \o getBaseNameWithoutExt(image) \o <<".avif">>

(* "<relative-path> <width>w" items of the variants in vs, comma-joined *)
RECURSIVE SrcsetOf(_, _)
SrcsetOf(file, vs) ==
  IF vs = <<>> THEN <<>>
  ELSE RefFrom(file, vs[1].path) \o <<" ", ToString(vs[1].width), "w">>
         \o (IF Len(vs) > 1 THEN <<", ">> ELSE <<>>) \o SrcsetOf(file, Tail(vs))

NonOriginal(vs) == SelectSeq(vs, LAMBDA v : v.type # "original")
AscendingWidths(vs) == \A k \in 1..(Len(vs) - 1) : vs[k].width < vs[k + 1].width
UpdateAllStep == applied' = applied + 1

(* The paths that are the asset: the raster under a legacy extension, its variants *)
AssetPaths(image, vs) ==
  {changeExtension(image, x) : x \in LegacyExts} \cup {vs[k].path : k \in 1..Len(vs)}

(* Every src-like attribute of the element names a file that is not the asset *)
NamesAnotherAsset(elem, file, image, vs) ==
  LET S == {k \in 1..Len(elem) : Lower(Last(elem[k].name)) = "src"}
  IN /\ SrcAttrs(elem) # {}
     /\ \A k \in S : \A p \in AssetPaths(image, vs) : elem[k].val # RefFrom(file, p)

(* C11 as stated: the rewrite for an asset leaves every image element whose src    *)
(* names a different asset (same base name in another directory, or a base name    *)
(* that merely ends with the asset's) exactly as it was.                           *)
C11_Original ==
  [][UpdateAllStep =>
       \A e \in 1..Len(htmlContent) :
         NamesAnotherAsset(htmlContent[e], htmlFile, imagePath, generatedImages)
           => htmlContent'[e] = htmlContent[e]]_vars

(* C8 as stated: a second updateAll with the same asset and variants leaves the   *)
(* file as the first left it, and no image element ever carries more than one     *)
(* srcset attribute.                                                              *)
C8_Original ==
  [][UpdateAllStep =>
       /\ (applied >= 1 => htmlContent' = htmlContent)
       /\ \A e \in 1..Len(htmlContent) :
            Cardinality(SrcsetAttrs(htmlContent[e])) <= 1
              => Cardinality(SrcsetAttrs(htmlContent'[e])) <= 1]_vars

(* C9 as stated: after the rewrite every image element whose src resolved to the  *)
(* asset has its src equal to the original-kind variant's path relative to the    *)
(* file, whether or not it already had a srcset attribute.                        *)
C9_Original ==
  [][(UpdateAllStep /\ applied = 0) =>
       \A e \in 1..Len(htmlContent) :
         RefersTo(htmlContent[e], htmlFile, imagePath) =>
           \A k \in SrcAttrs(htmlContent'[e]) :
             htmlContent'[e][k].val = RefFrom(htmlFile, OriginalVariantPath(imagePath))]_vars

(* C10 as stated: the srcset value written for a matched element lists one item   *)
(* per non-original variant and none for the original one, by ascending width.    *)
C10_Original ==
  [][(UpdateAllStep /\ applied = 0) =>
       \A e \in 1..Len(htmlContent) :
         RefersTo(htmlContent[e], htmlFile, imagePath) =>
           \E k \in SrcsetAttrs(htmlContent'[e]) :
             htmlContent'[e][k].val = SrcsetOf(htmlFile, NonOriginal(generatedImages))]_vars

(* C10 amended: the srcset value written for a matched element lists one item     *)
(* '<relative-path> <width>w' per variant of the asset, the original-kind variant *)
(* included as the last item, in plan order, that is by non-decreasing width      *)
(* (strictly ascending before the original item); an srcset attribute with that   *)
(* value is what the element carries after the rewrite.                           *)
C10_SrcsetAllVariants ==
  [][(UpdateAllStep /\ applied = 0) =>
       /\ AscendingWidths(NonOriginal(generatedImages))
       /\ NonDecreasing(Widths(generatedImages))
       /\ generatedImages[Len(generatedImages)].type = "original"
       /\ \A e \in 1..Len(htmlContent) :
            RefersTo(htmlContent[e], htmlFile, imagePath) =>
              \E k \in SrcsetAttrs(htmlContent'[e]) :
                /\ htmlContent'[e][k].name = <<"srcset">>
                /\ htmlContent'[e][k].val = SrcsetOf(htmlFile, generatedImages)]_vars

(* C10 witness: a rewritten element of a file in a subdirectory carries the three *)
(* items of the plan of width 256                                                 *)
C10_Witness ==
  /\ applied = 1 /\ imageWidth = 256 /\ Len(generatedImages) = 3
  /\ htmlFile = <<"dist", "/", "pages", "/", "about", ".html">>
  /\ \E e \in 1..Len(htmlContent) : \E k \in 1..Len(htmlContent[e]) :
       /\ htmlContent[e][k].name = <<"srcset">>
       /\ htmlContent[e][k].val = SrcsetOf(htmlFile, generatedImages)
       /\ Len(htmlContent[e][k].val) > Len(OldSrcset)

----------------------------------------------------------------------------
(* One asset at a time. *)
OldRefOf(j) == getRelativePath(BUILD_DIR, Fonts[j])
TextFilesOfSource == findFiles({Catalog[k] : k \in 1..Len(Catalog)}, TEXT_EXTS)

(* Raster i has been driven to completion: variants written, original unlinked, *)
(* its <img> element carrying the srcset of its variants                        *)
ImageComplete(i) ==
  /\ Range(PlanPaths(i)) \subseteq dist
  /\ Raster(i) \notin dist
  /\ \E k \in SrcsetAttrs(text[IndexHtml].elems[i]) :
       text[IndexHtml].elems[i][k].val
         = SrcsetOf(IndexHtml, generate(Raster(i), RasterWidth(i)))

(* Nothing has been done for raster i yet *)
ImageUntouched(i) ==
  /\ Range(PlanPaths(i)) \cap dist = {}
  /\ Raster(i) \in dist
  /\ text[IndexHtml].elems[i] = SourceText(IndexHtml).elems[i]

(* Font j has been driven to completion: converted, unlinked, no text file holds  *)
(* its old reference and every font-face block on its new one has the woff2 hint *)
FontComplete(j) ==
  /\ Woff2Of(j) \in dist /\ Fonts[j] \notin dist
  /\ \A k \in 1..Len(TextFilesOfSource) :
       LET c == text[TextFilesOfSource[k]]
       IN /\ ~includes(c, OldRefOf(j))
          /\ \A r \in 1..Len(c.rules) :
               (c.rules[r].fontFace
                  /\ includesText(c.rules[r].url, getRelativePath(BUILD_DIR, Woff2Of(j))))
                 => c.rules[r].format = "woff2"

(* Nothing has been done for font j yet *)
FontUntouched(j) ==
  /\ Woff2Of(j) \notin dist /\ Fonts[j] \in dist
  /\ \A k \in 1..Len(TextFilesOfSource) :
       includes(text[TextFilesOfSource[k]], OldRefOf(j))
         = includes(SourceText(TextFilesOfSource[k]), OldRefOf(j))

(* C18: assets are processed one at a time.  While the image pass is at raster idx, *)
(* every earlier raster is finished (reported failed, or complete with all its      *)
(* reference rewrites written) and no later raster has been touched; the same for   *)
(* the fonts in the font pass, so no two assets have a rewrite of a text file in    *)
(* flight together.                                                                 *)
C18_OneAssetAtATime ==
  /\ (pc = "image" /\ idx >= 1) =>
       \A i \in 1..NImages :
         /\ i < idx => (Logged("image", "failed", Raster(i))
                         \/ (Logged("image", "processed", Raster(i)) /\ ImageComplete(i)))
         /\ i > idx => ImageUntouched(i)
  /\ (pc = "font" /\ idx >= 1) =>
       \A j \in ConvertibleFonts :
         /\ j < idx => (Logged("font", "failed", Fonts[j])
                         \/ (Logged("font", "processed", Fonts[j]) /\ FontComplete(j)))
         /\ j > idx => FontUntouched(j)

(* C18 witness: the font pass is in the middle of its second font, whose reference *)
(* in the stylesheet is already rewritten, while the first font is complete and    *)
(* the image pass left every raster complete                                       *)
C18_Witness ==
  /\ pc = "font" /\ idx = 2 /\ step = "css"
  /\ Logged("font", "processed", Fonts[1]) /\ FontComplete(1)
  /\ ~includes(text[StyleCss], OldRefOf(2))
  /\ \A i \in 1..NImages : Logged("image", "processed", Raster(i)) /\ ImageComplete(i)

====
